---- MODULE Spec2Model ----
(***************************************************************************)
(* xventory: the stock-lookup tool (tools/stock.py), the index build       *)
(* (agents/agent.py) and the catalog load (lib/tools.py), as a state       *)
(* machine.  Start-up runs load_csv_as_dataframe, setup_vectorstore and    *)
(* VectorProductStockTool.__init__ in that order (main.py:20-21,           *)
(* agent.py:88-89); after that every step is one whole query, either       *)
(* _run(query) or __call__(query).                                         *)
(*                                                                         *)
(* Text is modelled as text: a query and a sku are sequences of one-       *)
(* character strings (so that strip() and lower() are computed), every     *)
(* other text is a string, and a returned answer is the sequence of its    *)
(* lines (the text split at "\n").  A price is a count of cents, or a      *)
(* non-numeric cell.  The embedding backend and rapidfuzz are outside the  *)
(* repository: what they return is an input of the query step.             *)
(***************************************************************************)
EXTENDS Integers, Sequences, FiniteSets, TLC

VARIABLES
    pc,           \* "boot", "loaded", "indexed", "ready", "answered" or "crashed"
    source,       \* the catalog file FILE_PATH names
    df,           \* main.py:20, the DataFrame
    vectorstore,  \* agent.py:88, the Chroma store or None
    tool,         \* the VectorProductStockTool: its three fuzzy indexes
    call          \* the last query: its input, what it invoked, its outcome

vars == <<pc, source, df, vectorstore, tool, call>>

-----------------------------------------------------------------------------
(* Bounds of the model *)

\* longest query, in characters
MaxQueryLen == 2
\* most documents the embedding backend ranks for one query
MaxHits == 5

-----------------------------------------------------------------------------
(* Program constants *)

_FUZZ_THRESHOLD == 70
\* k of similarity_search_with_score in _semantic_lookup
SEMANTIC_K == 4
\* k of _vector_search, the search _run no longer calls
LISTING_K == 10
\* default of product.get('low_stock_threshold', 10) and m.get(..., 10)
DEFAULT_LOW_STOCK_THRESHOLD == 10

-----------------------------------------------------------------------------
(* Text *)

UpperChars == <<"A", "B", "C", "D", "E", "F", "G", "H", "I", "J", "K", "L", "M",
                "N", "O", "P", "Q", "R", "S", "T", "U", "V", "W", "X", "Y", "Z">>
LowerChars == <<"a", "b", "c", "d", "e", "f", "g", "h", "i", "j", "k", "l", "m",
                "n", "o", "p", "q", "r", "s", "t", "u", "v", "w", "x", "y", "z">>

\* str.lower() on one character
ToLower(c) ==
    IF \E i \in 1..Len(UpperChars) : UpperChars[i] = c
    THEN LowerChars[CHOOSE i \in 1..Len(UpperChars) : UpperChars[i] = c]
    ELSE c

\* str.lower()
Lower(s) == [i \in 1..Len(s) |-> ToLower(s[i])]

IsSpace(c) == c = " "

RECURSIVE LStrip(_)
LStrip(s) == IF s # <<>> /\ IsSpace(Head(s)) THEN LStrip(Tail(s)) ELSE s

RECURSIVE RStrip(_)
RStrip(s) ==
    IF s # <<>> /\ IsSpace(s[Len(s)]) THEN RStrip(SubSeq(s, 1, Len(s) - 1)) ELSE s

\* str.strip()
Strip(s) == RStrip(LStrip(s))

\* the text of a sequence of characters
RECURSIVE Text(_)
Text(s) == IF s = <<>> THEN "" ELSE Head(s) \o Text(Tail(s))

DigitChars == <<"0", "1", "2", "3", "4", "5", "6", "7", "8", "9">>

\* str(n) of a non-negative integer
RECURSIVE IntToStr(_)
IntToStr(n) ==
    IF n < 10 THEN DigitChars[n + 1]
    ELSE IntToStr(n \div 10) \o DigitChars[(n % 10) + 1]

\* f"{float(price):.2f}" of a price in cents
Fixed2(cents) ==
    IntToStr(cents \div 100) \o "." \o DigitChars[((cents % 100) \div 10) + 1]
        \o DigitChars[(cents % 10) + 1]

\* str(float) of a price in cents: the shortest decimal, at least one digit
FloatStr(cents) ==
    IntToStr(cents \div 100) \o "." \o DigitChars[((cents % 100) \div 10) + 1]
        \o (IF cents % 10 = 0 THEN "" ELSE DigitChars[(cents % 10) + 1])

\* a numeric price cell, and a cell that holds text that is no number
Num(cents) == [num |-> TRUE, cents |-> cents, text |-> ""]
NotNum(text) == [num |-> FALSE, cents |-> 0, text |-> text]

\* bool(price)
Truthy(price) == IF price.num THEN price.cents # 0 ELSE price.text # ""

\* f"{price}"
PriceStr(price) == IF price.num THEN FloatStr(price.cents) ELSE price.text

-----------------------------------------------------------------------------
(* Dictionaries and rows *)

\* dict.get(key, default), Series.get(key, default)
Get(d, key, default) == IF key \in DOMAIN d THEN d[key] ELSE default

\* a.update(b)
Update(a, b) ==
    [key \in (DOMAIN a) \cup (DOMAIN b) |-> IF key \in DOMAIN b THEN b[key] ELSE a[key]]

Range(s) == {s[i] : i \in 1..Len(s)}

Min(a, b) == IF a < b THEN a ELSE b

\* the sequences over S of length at most n
SeqsUpTo(S, n) == UNION {[1..m -> S] : m \in 0..n}

-----------------------------------------------------------------------------
(* The catalog: lib/tools.py *)

Row(name, sku, description, quantity, stock_status, low_stock_threshold, price) ==
    [name |-> name, sku |-> sku, description |-> description, quantity |-> quantity,
     stock_status |-> stock_status, low_stock_threshold |-> low_stock_threshold,
     price |-> price]

RowA == Row("Inverse static help-desk", <<"S", "K", "1">>, "help desk", 5,
            "low_stock", 10, Num(4999))
RowB == Row("Widget", <<"s", "k", "1">>, "widget", 0, "out_of_stock", 10, Num(0))
RowC == Row("Gadget", <<"S", "K", "3">>, "gadget", 20, "in_stock", 10, Num(1250))
\* the sku of RowA again, with a threshold of its own above the default
RowD == Row("Help-desk spare", <<"S", "K", "1">>, "spare", 15, "in_stock", 20,
            NotNum("abc"))

\* a row of a file that has no low_stock_threshold column
NoThreshold(row) == [col \in (DOMAIN row) \ {"low_stock_threshold"} |-> row[col]]

Frame(columns, rows) == [columns |-> columns, rows |-> rows]

\* pd.DataFrame()
EmptyFrame == Frame({}, <<>>)

Tables ==
    { Frame(DOMAIN RowA, <<>>),
      Frame(DOMAIN RowA, <<RowA>>),
      Frame(DOMAIN RowA, <<RowA, RowB, RowC>>),
      Frame(DOMAIN RowA, <<RowA, RowD, RowB>>),
      Frame(DOMAIN NoThreshold(RowA), <<NoThreshold(RowA), NoThreshold(RowD)>>) }

\* the file FILE_PATH names: missing or malformed, or a table
Sources ==
    {[readable |-> FALSE, table |-> EmptyFrame]}
        \cup {[readable |-> TRUE, table |-> t] : t \in Tables}

\* pd.read_csv raises on a missing or malformed file
load_csv_as_dataframe(src) == IF src.readable THEN src.table ELSE EmptyFrame

-----------------------------------------------------------------------------
(* The semantic index: agents/agent.py *)

NA == <<"N", "/", "A">>

\* one "Label: value" line of page_content
Line(label, value) == [label |-> label, value |-> value]

\* of the 23 lines and 9 metadata keys, the ones the stock tool reads
Content(row) ==
    << Line("Name", Get(row, "name", "N/A")),
       Line("SKU", Get(row, "sku", NA)),
       Line("Description", Get(row, "description", "N/A")),
       Line("Quantity", Get(row, "quantity", 0)),
       Line("Stock Status", Get(row, "stock_status", "unknown")),
       Line("Low Stock Threshold",
            Get(row, "low_stock_threshold", DEFAULT_LOW_STOCK_THRESHOLD)),
       Line("Price", Get(row, "price", Num(0))) >>

Metadata(row, idx) ==
    [product_id |-> Get(row, "id", idx),
     sku |-> Get(row, "sku", <<>>),
     name |-> Get(row, "name", ""),
     stock_status |-> Get(row, "stock_status", ""),
     quantity |-> Get(row, "quantity", 0),
     price |-> Get(row, "price", Num(0)),
     row_index |-> idx]

Document(page_content, metadata) == [page_content |-> page_content, metadata |-> metadata]

\* idx counts from 0, as DataFrame.iterrows does
create_product_documents(frame) ==
    [i \in 1..Len(frame.rows) |->
        Document(Content(frame.rows[i]), Metadata(frame.rows[i], i - 1))]

None == [present |-> FALSE, docs |-> <<>>]

\* Chroma.from_documents raises when the embedding backend is unavailable
setup_vectorstore(frame, embeddingsUp) ==
    IF embeddingsUp
    THEN [present |-> TRUE, docs |-> create_product_documents(frame)]
    ELSE None

-----------------------------------------------------------------------------
(* Results of calls: a value, or an exception with its str(e) *)

Ok(val) == [exc |-> "", val |-> val]
Raise(message) == [exc |-> message, val |-> <<>>]

-----------------------------------------------------------------------------
(* VectorProductStockTool: construction *)

Column(frame, col) == [i \in 1..Len(frame.rows) |-> frame.rows[i][col]]

NoTool == [exc |-> "", name_index |-> <<>>, sku_index |-> <<>>, desc_index |-> <<>>]

\* csv_data["name"] of a frame without the column raises KeyError
__init__(frame) ==
    IF "name" \notin frame.columns THEN [NoTool EXCEPT !.exc = "KeyError: 'name'"]
    ELSE IF "sku" \notin frame.columns THEN [NoTool EXCEPT !.exc = "KeyError: 'sku'"]
    ELSE IF "description" \notin frame.columns
    THEN [NoTool EXCEPT !.exc = "KeyError: 'description'"]
    ELSE [exc |-> "",
          name_index |-> Column(frame, "name"),
          sku_index |-> Column(frame, "sku"),
          desc_index |-> Column(frame, "description")]

-----------------------------------------------------------------------------
(* The two lookups: tools/stock.py *)

NotInvoked == [invoked |-> FALSE, exc |-> "", val |-> <<>>]
Invoked(r) == [invoked |-> TRUE, exc |-> r.exc, val |-> r.val]

\* Chroma.similarity_search_with_score(query, k): the k best of the documents the
\* backend ranks, or a failure of the backend.  The scores are dropped at once
\* ([doc for doc, score in res]; _SIM_THRESHOLD is never read) and are left out.
similarity_search_with_score(store, backend, k) ==
    IF ~backend.up THEN Raise("embedding backend unavailable")
    ELSE Ok([i \in 1..Min(k, Len(backend.ranked)) |-> store.docs[backend.ranked[i]]])

\* None.similarity_search_with_score is an AttributeError
_semantic_lookup(store, backend) ==
    IF ~store.present
    THEN Raise("'NoneType' object has no attribute 'similarity_search_with_score'")
    ELSE similarity_search_with_score(store, backend, SEMANTIC_K)

\* the scores rapidfuzz can give, as far as the threshold tells them apart
Scores == {0, _FUZZ_THRESHOLD - 1, _FUZZ_THRESHOLD, 100}

\* what process.extractOne finds in a list of n choices: its best choice ...
Picks(n) == [score : Scores, idx : 1..n]
\* ... and None for an empty list
NoPick == [score |-> 0, idx |-> 0]
PicksOf(choices) == IF choices = <<>> THEN {NoPick} ELSE Picks(Len(choices))

\* _check(choices): hit, score, idx = process.extractOne(...) cannot unpack None
_check(best, choices, pick) ==
    IF best.exc # "" THEN best
    ELSE IF choices = <<>>
    THEN [best EXCEPT !.exc = "cannot unpack non-iterable NoneType object"]
    ELSE IF pick.score > best.score
    THEN [best EXCEPT !.score = pick.score, !.row = pick.idx]
    ELSE best

\* picks: what extractOne finds in the name, the sku and the description list.
\* self.df is no attribute of the tool (its frame is csv_data).
_fuzzy_lookup(index, picks) ==
    LET start == [exc |-> "", score |-> 0, row |-> 0]
        best == _check(_check(_check(start, index.name_index, picks[1]),
                              index.sku_index, picks[2]),
                       index.desc_index, picks[3])
    IN IF best.exc # "" THEN Raise(best.exc)
       ELSE IF best.score < _FUZZ_THRESHOLD THEN Ok(<<>>)
       ELSE Raise("'VectorProductStockTool' object has no attribute 'df'")

\* as Fallback, but asking the fuzzy lookup whatever the search found
FallbackAlways(semantic, index, picks) == Invoked(_fuzzy_lookup(index, picks))

\* if not relevant_docs: relevant_docs = self._fuzzy_lookup(query)
\* (_run, and __call__ at 45-46)
Fallback(semantic, index, picks) ==
    IF semantic.val = <<>> THEN Invoked(_fuzzy_lookup(index, picks)) ELSE NotInvoked

NoMatchMessage(query) ==
    << "No products found matching '" \o Text(query)
          \o "'. Please check the product name or SKU." >>

-----------------------------------------------------------------------------
(* From documents to products *)

\* key.strip().lower().replace(' ', '_') of the labels create_product_documents writes
NormKey(label) ==
    CASE label = "Name" -> "name"
      [] label = "SKU" -> "sku"
      [] label = "Description" -> "description"
      [] label = "Quantity" -> "quantity"
      [] label = "Stock Status" -> "stock_status"
      [] label = "Low Stock Threshold" -> "low_stock_threshold"
      [] label = "Price" -> "price"

\* value.lower() in ['nan', 'n/a'], of a string and of a sequence of characters
IsNaText(value) == value \in {"nan", "NaN", "NAN", "n/a", "N/A"}
IsNaChars(value) == Lower(value) \in {<<"n", "a", "n">>, <<"n", "/", "a">>}

\* the value a line leaves in product_data: int(float(value)) of the written
\* integer is that integer, float(value) of a non-number is replaced by 0.0
ParseValue(key, value) ==
    CASE key \in {"quantity", "low_stock_threshold"} -> value
      [] key = "price" -> (IF value.num THEN value ELSE Num(0))
      [] key = "sku" -> (IF IsNaChars(value) THEN <<>> ELSE value)
      [] OTHER -> (IF IsNaText(value) THEN "" ELSE value)

RECURSIVE ParseLines(_, _)
ParseLines(lines, product_data) ==
    IF lines = <<>> THEN product_data
    ELSE LET key == NormKey(Head(lines).label)
         IN ParseLines(Tail(lines),
                Update(product_data, key :> ParseValue(key, Head(lines).value)))

\* {}, a dictionary without keys
EmptyDict == [key \in {} |-> 0]

\* if metadata: product_data.update(metadata)
_parse_product_content(content, metadata) ==
    LET product_data == ParseLines(content, EmptyDict)
    IN IF DOMAIN metadata # {} THEN Update(product_data, metadata) ELSE product_data

\* product_data.get("sku") of a dictionary without the key
NoneSku == <<"None">>

\* as ExtractOne, but telling skus apart without regard to case
ExtractOneIgnoringCase(acc, doc) ==
    LET product_data == _parse_product_content(doc.page_content, doc.metadata)
        sku == Lower(Get(product_data, "sku", NoneSku))
    IN IF DOMAIN product_data # {} /\ sku \notin acc.seen_skus
       THEN [seen_skus |-> acc.seen_skus \cup {sku},
             products |-> Append(acc.products, product_data)]
       ELSE acc

\* one turn of the loop of _extract_product_info
ExtractOne(acc, doc) ==
    LET product_data == _parse_product_content(doc.page_content, doc.metadata)
        sku == Get(product_data, "sku", NoneSku)
    IN IF DOMAIN product_data # {} /\ sku \notin acc.seen_skus
       THEN [seen_skus |-> acc.seen_skus \cup {sku},
             products |-> Append(acc.products, product_data)]
       ELSE acc

RECURSIVE ExtractLoop(_, _)
ExtractLoop(acc, docs) ==
    IF docs = <<>> THEN acc ELSE ExtractLoop(ExtractOne(acc, Head(docs)), Tail(docs))

_extract_product_info(docs) ==
    ExtractLoop([seen_skus |-> {}, products |-> <<>>], docs).products

-----------------------------------------------------------------------------
(* The listing: _format_stock_results *)

\* "=" * 50 and "-" * 30
RECURSIVE Repeat(_, _)
Repeat(c, n) == IF n = 0 THEN "" ELSE c \o Repeat(c, n - 1)

\* the lines of one product; float(price) of a non-number raises ValueError.
\* Brand, supplier sku, lead time and short description are outside the model.
ProductLines(product) ==
    LET quantity == Get(product, "quantity", 0)
        stock_status == Get(product, "stock_status", "unknown")
        low_stock_threshold ==
            Get(product, "low_stock_threshold", DEFAULT_LOW_STOCK_THRESHOLD)
        price == Get(product, "price", Num(0))
    IN IF Truthy(price) /\ ~price.num
       THEN Raise("could not convert string to float: '" \o price.text \o "'")
       ELSE Ok(
          << "Product: " \o Get(product, "name", "N/A"),
             "SKU: " \o Text(Get(product, "sku", NA)),
             "Current Stock: " \o IntToStr(quantity) \o " units",
             "Stock Status: " \o stock_status >>
          \o (IF low_stock_threshold # 0
              THEN <<"Low Stock Threshold: " \o IntToStr(low_stock_threshold) \o " units">>
              ELSE <<>>)
          \o (IF Truthy(price) THEN <<"Price: $" \o Fixed2(price.cents)>> ELSE <<>>)
          \o <<"", Repeat("-", 30), "">>)

RECURSIVE ListingLines(_, _)
ListingLines(result, products) ==
    IF result.exc # "" \/ products = <<>> THEN result
    ELSE LET block == ProductLines(Head(products))
         IN IF block.exc # "" THEN block
            ELSE ListingLines(Ok(result.val \o block.val), Tail(products))

RECURSIVE Sum(_)
Sum(numbers) == IF numbers = <<>> THEN 0 ELSE Head(numbers) + Sum(Tail(numbers))

\* sum(1 for p in products if p.get('stock_status') == status)
CountStatus(products, status) ==
    Sum([i \in 1..Len(products) |->
            IF Get(products[i], "stock_status", "") = status THEN 1 ELSE 0])

\* as SummaryLines, but counting every product that is not in stock as low
SummaryLinesNotInStock(products) ==
    << "SUMMARY:",
       "Total Products Found: " \o IntToStr(Len(products)),
       "Total Stock: "
          \o IntToStr(Sum([i \in 1..Len(products) |-> Get(products[i], "quantity", 0)]))
          \o " units",
       "Low Stock Items: "
          \o IntToStr(Len(products) - CountStatus(products, "in_stock")),
       "Out of Stock Items: " \o IntToStr(CountStatus(products, "out_of_stock")) >>

SummaryLines(products) ==
    << "SUMMARY:",
       "Total Products Found: " \o IntToStr(Len(products)),
       "Total Stock: "
          \o IntToStr(Sum([i \in 1..Len(products) |-> Get(products[i], "quantity", 0)]))
          \o " units",
       "Low Stock Items: " \o IntToStr(CountStatus(products, "low_stock")),
       "Out of Stock Items: " \o IntToStr(CountStatus(products, "out_of_stock")) >>

_format_stock_results(products, query) ==
    IF products = <<>> THEN Ok(<<"No products found for '" \o Text(query) \o "'">>)
    ELSE LET header == << "Stock Information for '" \o Text(query) \o "':",
                          Repeat("=", 50), "" >>
             listing == ListingLines(Ok(header), products)
         IN IF listing.exc # "" THEN listing
            ELSE IF Len(products) > 1 THEN Ok(listing.val \o SummaryLines(products))
            ELSE listing

-----------------------------------------------------------------------------
(* The two entry points *)

\* what one query invoked and found, and what it gave back
Trace(semantic, fuzzy, products, out) ==
    [semantic |-> semantic, fuzzy |-> fuzzy, products |-> products, out |-> out]

\* as Normalize, without lower()
NormalizeStripOnly(query) == Strip(query)

\* query = query.strip().lower()
Normalize(query) == Lower(Strip(query))

\* the body of the try of _run
RunTry(query, store, index, backend, picks) ==
    LET q == Normalize(query)
        semantic == Invoked(_semantic_lookup(store, backend))
    IN IF semantic.exc # "" THEN Trace(semantic, NotInvoked, <<>>, Raise(semantic.exc))
       ELSE LET fuzzy == Fallback(semantic, index, picks)
                relevant_docs == IF fuzzy.invoked THEN fuzzy.val ELSE semantic.val
            IN IF fuzzy.exc # "" THEN Trace(semantic, fuzzy, <<>>, Raise(fuzzy.exc))
               ELSE IF relevant_docs = <<>>
               THEN Trace(semantic, fuzzy, <<>>, Ok(NoMatchMessage(q)))
               ELSE LET products_info == _extract_product_info(relevant_docs)
                    IN Trace(semantic, fuzzy, products_info,
                             _format_stock_results(products_info, q))

\* as CatchException, with except ValueError in place of except Exception
CatchValueError(out) ==
    IF out.exc = "could not convert string to float: 'abc'"
    THEN Ok(<<"Error checking stock: " \o out.exc>>)
    ELSE out

\* except Exception as e: return f"Error checking stock: {str(e)}"
CatchException(out) ==
    IF out.exc # "" THEN Ok(<<"Error checking stock: " \o out.exc>>) ELSE out

\* the k the search was issued with, 0 when none was issued
IssuedK(store) == IF store.present THEN SEMANTIC_K ELSE 0

Called(op, query, store, picks, trace, out) ==
    [op |-> op, query |-> query, k |-> IssuedK(store),
     semantic |-> trace.semantic, fuzzy |-> trace.fuzzy,
     picks |-> IF trace.fuzzy.invoked THEN picks ELSE <<>>,
     products |-> trace.products, exc |-> out.exc, ret |-> out.val]

_run(query, store, index, backend, picks) ==
    LET trace == RunTry(query, store, index, backend, picks)
    IN Called("_run", query, store, picks, trace, CatchException(trace.out))

\* the characters of the answer that a string of this module cannot hold
Backtick == "<U+0060>"
Bullet == "<U+2022>"
WarningSign == "<U+26A0><U+FE0F>"

\* low = m["quantity"] <= m.get("low_stock_threshold", 10)
IsLow(m) == m["quantity"] <= Get(m, "low_stock_threshold", DEFAULT_LOW_STOCK_THRESHOLD)

Answer(m) ==
    << "**" \o m["name"] \o "**",
       "SKU " \o Backtick \o Text(m["sku"]) \o Backtick \o " " \o Bullet \o " Qty: **"
          \o IntToStr(m["quantity"]) \o "** ("
          \o (IF IsLow(m) THEN "LOW STOCK " \o WarningSign ELSE "in stock") \o ")",
       "Price: " \o PriceStr(m["price"]) \o " " \o Get(m, "currency", "USD") >>

\* no try: an exception leaves __call__; the query is used as given
__call__(query, store, index, backend, picks) ==
    LET semantic == Invoked(_semantic_lookup(store, backend))
        trace ==
            IF semantic.exc # "" THEN Trace(semantic, NotInvoked, <<>>, Raise(semantic.exc))
            ELSE LET fuzzy == Fallback(semantic, index, picks)
                     docs == IF fuzzy.invoked THEN fuzzy.val ELSE semantic.val
                 IN IF fuzzy.exc # "" THEN Trace(semantic, fuzzy, <<>>, Raise(fuzzy.exc))
                    ELSE IF docs = <<>>
                    THEN Trace(semantic, fuzzy, <<>>, Ok(NoMatchMessage(query)))
                    ELSE Trace(semantic, fuzzy, <<>>, Ok(Answer(docs[1].metadata)))
    IN Called("__call__", query, store, picks, trace, trace.out)

-----------------------------------------------------------------------------
(* The inputs of a query *)

QueryChars == {" ", "a", "A"}
Queries == SeqsUpTo(QueryChars, MaxQueryLen)

BackendDown == [up |-> FALSE, ranked |-> <<>>]

\* the backend ranks documents of the store, one document as often as the
\* persisted collection holds it; without a store there is no backend to ask
Backends(store) ==
    IF ~store.present THEN {BackendDown}
    ELSE {BackendDown}
           \cup {[up |-> TRUE, ranked |-> r] : r \in SeqsUpTo(1..Len(store.docs), MaxHits)}

NoPicks == <<NoPick, NoPick, NoPick>>

\* extractOne is asked only when the search came back empty
PickInputs(store, index, backend) ==
    IF store.present /\ backend.up /\ backend.ranked = <<>>
    THEN PicksOf(index.name_index) \X PicksOf(index.sku_index) \X PicksOf(index.desc_index)
    ELSE {NoPicks}

-----------------------------------------------------------------------------
(* The state machine *)

NoCall ==
    [op |-> "none", query |-> <<>>, k |-> 0, semantic |-> NotInvoked,
     fuzzy |-> NotInvoked, picks |-> <<>>, products |-> <<>>, exc |-> "", ret |-> <<>>]

Init ==
    /\ pc = "boot"
    /\ source \in Sources
    /\ df = EmptyFrame
    /\ vectorstore = None
    /\ tool = NoTool
    /\ call = NoCall

\* main.py:20
LoadCsv ==
    /\ pc = "boot"
    /\ df' = load_csv_as_dataframe(source)
    /\ pc' = "loaded"
    /\ UNCHANGED <<source, vectorstore, tool, call>>

\* agent.py:88
SetupVectorstore ==
    /\ pc = "loaded"
    /\ \E embeddingsUp \in BOOLEAN : vectorstore' = setup_vectorstore(df, embeddingsUp)
    /\ pc' = "indexed"
    /\ UNCHANGED <<source, df, tool, call>>

\* agent.py:89; an exception of the constructor ends the start-up
ConstructTool ==
    /\ pc = "indexed"
    /\ tool' = __init__(df)
    /\ pc' = IF tool'.exc = "" THEN "ready" ELSE "crashed"
    /\ UNCHANGED <<source, df, vectorstore, call>>

RunQuery ==
    /\ pc = "ready"
    /\ \E query \in Queries, backend \in Backends(vectorstore) :
         \E picks \in PickInputs(vectorstore, tool, backend) :
            call' = _run(query, vectorstore, tool, backend, picks)
    /\ pc' = "answered"
    /\ UNCHANGED <<source, df, vectorstore, tool>>

CallQuery ==
    /\ pc = "ready"
    /\ \E query \in Queries, backend \in Backends(vectorstore) :
         \E picks \in PickInputs(vectorstore, tool, backend) :
            call' = __call__(query, vectorstore, tool, backend, picks)
    /\ pc' = "answered"
    /\ UNCHANGED <<source, df, vectorstore, tool>>

\* the caller has the answer; nothing of the query is kept for the next one
Respond ==
    /\ pc = "answered"
    /\ call' = NoCall
    /\ pc' = "ready"
    /\ UNCHANGED <<source, df, vectorstore, tool>>

Next ==
    LoadCsv \/ SetupVectorstore \/ ConstructTool \/ RunQuery \/ CallQuery \/ Respond

Spec == Init /\ [][Next]_vars

-----------------------------------------------------------------------------
(* Properties *)

\* the messages of the exceptions a query can meet
Failures ==
    { "'NoneType' object has no attribute 'similarity_search_with_score'",
      "embedding backend unavailable",
      "cannot unpack non-iterable NoneType object",
      "'VectorProductStockTool' object has no attribute 'df'",
      "could not convert string to float: 'abc'" }

NoMatchText(chars) ==
    << "No products found matching '" \o Text(chars)
          \o "'. Please check the product name or SKU." >>

IsErrorMessage(ret) == \E e \in Failures : ret = <<"Error checking stock: " \o e>>

IsListing(ret, chars) ==
    /\ Len(ret) > 3
    /\ ret[1] = "Stock Information for '" \o Text(chars) \o "':"

\* the search returned, and returned nothing
SemanticEmpty == call.semantic.invoked /\ call.semantic.exc = "" /\ call.semantic.val = <<>>
\* the fuzzy lookup returned, and returned nothing
FuzzyEmpty == call.fuzzy.invoked /\ call.fuzzy.exc = "" /\ call.fuzzy.val = <<>>

\* C1: _run never raises: whatever the state of the tool and whatever the
\* lookups and the formatter do, it returns a listing, the no-match message or a
\* message "Error checking stock: ...".
RunNeverRaises ==
    call.op = "_run" =>
        /\ call.exc = ""
        /\ \/ IsListing(call.ret, Lower(Strip(call.query)))
           \/ call.ret = NoMatchText(Lower(Strip(call.query)))
           \/ IsErrorMessage(call.ret)

\* C1, witness: a _run whose fuzzy lookup raised and that returned the message
RunCaughtFailure ==
    /\ call.op = "_run"
    /\ call.fuzzy.invoked
    /\ call.fuzzy.exc # ""
    /\ IsErrorMessage(call.ret)

\* C2: in _run and in __call__ the search is invoked first; the fuzzy lookup
\* is invoked only when the search returned nothing; when the search returned
\* documents the answer is built from them alone; and the no-match message is
\* returned only when both lookups returned nothing.
CascadeOrder ==
    call.op \in {"_run", "__call__"} =>
        /\ call.semantic.invoked
        /\ call.fuzzy.invoked => SemanticEmpty
        /\ call.semantic.val # <<>> =>
              /\ ~call.fuzzy.invoked
              /\ \A i \in 1..Len(call.products) :
                    \E j \in 1..Len(call.semantic.val) :
                       call.products[i]["row_index"]
                           = call.semantic.val[j].metadata["row_index"]
              /\ call.op = "_run" => Len(call.products) > 0
              /\ call.op = "__call__" =>
                    /\ call.exc = ""
                    /\ call.ret[1] = "**" \o call.semantic.val[1].metadata["name"] \o "**"
        /\ (\E chars \in Queries : call.op # "none" /\ call.ret = NoMatchText(chars)) =>
              SemanticEmpty /\ FuzzyEmpty

\* C2, witness: a __call__ that fell back to the fuzzy lookup and found nothing
CascadeFellBack ==
    /\ call.op = "__call__"
    /\ SemanticEmpty
    /\ FuzzyEmpty
    /\ call.ret = NoMatchText(call.query)

\* C3 as stated: when both lookups find nothing, _run returns the no-match
\* message with the query trimmed and its letter case unchanged.
NoMatchKeepsCase ==
    (call.op = "_run" /\ SemanticEmpty /\ FuzzyEmpty) =>
        call.ret = NoMatchText(Strip(call.query))

\* C3, amended: when both lookups return nothing, _run returns the no-match
\* message with the query trimmed and lower-cased.
NoMatchNormalized ==
    (call.op = "_run" /\ SemanticEmpty /\ FuzzyEmpty) =>
        /\ call.exc = ""
        /\ call.ret = NoMatchText(Lower(Strip(call.query)))
        /\ call.query = <<" ", "A">> =>
              call.ret = <<"No products found matching 'a'. Please check the product name or SKU.">>

\* C3, witness: no match for a query that has a blank to trim and a capital
NoMatchForCapital ==
    /\ call.op = "_run"
    /\ SemanticEmpty
    /\ FuzzyEmpty
    /\ call.query = <<" ", "A">>

\* C4: with vectorstore = None, _run goes to the fuzzy lookup and returns a
\* result or the no-match message, never "Error checking stock: ...".
NoIndexFallsBack ==
    (call.op = "_run" /\ ~vectorstore.present) =>
        /\ call.fuzzy.invoked
        /\ ~IsErrorMessage(call.ret)

BestScore ==
    LET a == call.picks[1].score
        b == call.picks[2].score
        c == call.picks[3].score
    IN IF a >= b /\ a >= c THEN a ELSE IF b >= c THEN b ELSE c

\* C5: after an empty search over a catalog with rows, a best fuzzy score
\* below 70 ends in the no-match message, and a best score of 70 or more yields
\* a rendered result: no exception, no no-match, no error message.
FuzzyBoundary ==
    (call.op \in {"_run", "__call__"} /\ call.fuzzy.invoked /\ tool.name_index # <<>>) =>
        /\ BestScore < _FUZZ_THRESHOLD =>
              call.exc = "" /\ \E chars \in Queries : call.ret = NoMatchText(chars)
        /\ BestScore >= _FUZZ_THRESHOLD =>
              /\ call.exc = ""
              /\ ~IsErrorMessage(call.ret)
              /\ \A chars \in Queries : call.ret # NoMatchText(chars)

\* the rank of the first document with the sku
FirstWith(docs, sku) == CHOOSE j \in 1..Len(docs) :
    /\ docs[j].metadata["sku"] = sku
    /\ \A h \in 1..(j - 1) : docs[h].metadata["sku"] # sku

\* C6: the products _extract_product_info returns hold each sku of its
\* documents once, as the first document with that sku, in the order of these
\* first documents; skus that differ in case only are different skus.
DedupBySku ==
    (call.op = "_run" /\ call.semantic.val # <<>>) =>
        LET docs == call.semantic.val
            products == call.products
        IN /\ \A i, j \in 1..Len(products) :
                 products[i]["sku"] = products[j]["sku"] => i = j
           /\ {products[i]["sku"] : i \in 1..Len(products)}
                 = {docs[j].metadata["sku"] : j \in 1..Len(docs)}
           /\ \A i \in 1..Len(products) :
                 products[i]["row_index"]
                     = docs[FirstWith(docs, products[i]["sku"])].metadata["row_index"]
           /\ \A i, j \in 1..Len(products) :
                 i < j => FirstWith(docs, products[i]["sku"])
                             < FirstWith(docs, products[j]["sku"])

\* C6, witness: documents that repeat a sku, the later of two rows with that
\* sku ranked first, and a sku that differs from it in case only
DedupDroppedRepeat ==
    /\ call.op = "_run"
    /\ Len(call.semantic.val) = 4
    /\ Len(call.products) = 2
    /\ call.products[1]["row_index"] = 1
    /\ call.products[1]["sku"] = <<"S", "K", "1">>
    /\ call.products[2]["sku"] = <<"s", "k", "1">>

\* C7: the answer of __call__ says LOW STOCK exactly when the quantity of the
\* top record is at most the record's own low_stock_threshold (10 when the
\* record has none), and "in stock" otherwise.
LowStockFlag ==
    (call.op = "__call__" /\ call.exc = "" /\ call.semantic.val # <<>>) =>
        LET m == call.semantic.val[1].metadata
            record == df.rows[m["row_index"] + 1]
            low == record["quantity"]
                      <= Get(record, "low_stock_threshold", DEFAULT_LOW_STOCK_THRESHOLD)
        IN call.ret[2] = "SKU " \o Backtick \o Text(record["sku"]) \o Backtick \o " "
                            \o Bullet \o " Qty: **" \o IntToStr(record["quantity"])
                            \o "** ("
                            \o (IF low THEN "LOW STOCK " \o WarningSign ELSE "in stock")
                            \o ")"

\* the units of the products, counted one by one
Units(products) ==
    Cardinality(UNION {{<<i, u>> : u \in 1..products[i]["quantity"]} : i \in 1..Len(products)})

Having(products, status) ==
    Cardinality({i \in 1..Len(products) : products[i]["stock_status"] = status})

\* C8: the listing ends in the SUMMARY block exactly when it has more than one
\* product, and the block gives the number of products, the sum of their
\* quantities and the numbers of low_stock and out_of_stock products;
\* quantities 5, 0, 20 with low_stock, out_of_stock, in_stock give 3, 25, 1, 1.
SummaryAggregation ==
    (call.op = "_run" /\ IsListing(call.ret, Lower(Strip(call.query)))) =>
        LET products == call.products
            n == Len(call.ret)
        IN /\ ("SUMMARY:" \in Range(call.ret)) <=> (Len(products) > 1)
           /\ Len(products) > 1 =>
                 SubSeq(call.ret, n - 4, n)
                    = << "SUMMARY:",
                         "Total Products Found: " \o IntToStr(Len(products)),
                         "Total Stock: " \o IntToStr(Units(products)) \o " units",
                         "Low Stock Items: " \o IntToStr(Having(products, "low_stock")),
                         "Out of Stock Items: "
                            \o IntToStr(Having(products, "out_of_stock")) >>
           /\ [i \in 1..Len(products) |-> products[i]["quantity"]] = <<5, 0, 20>> =>
                 SubSeq(call.ret, n - 3, n)
                    = << "Total Products Found: 3", "Total Stock: 25 units",
                         "Low Stock Items: 1", "Out of Stock Items: 1" >>

\* C8, witness: the listing of the three products with quantities 5, 0, 20
SummaryOfThree ==
    /\ call.op = "_run"
    /\ IsListing(call.ret, Lower(Strip(call.query)))
    /\ [i \in 1..Len(call.products) |-> call.products[i]["quantity"]] = <<5, 0, 20>>
    /\ [i \in 1..Len(call.products) |-> call.products[i]["stock_status"]]
          = <<"low_stock", "out_of_stock", "in_stock">>
    /\ "SUMMARY:" \in Range(call.ret)

\* C9: with a missing or malformed catalog file the frame is empty, the tool
\* is constructed on it without an exception, and every query ends in the
\* no-match message.
EmptyCatalogDegrades ==
    ~source.readable =>
        /\ pc # "boot" => df = EmptyFrame
        /\ pc # "crashed"
        /\ call.op # "none" =>
              call.exc = "" /\ \E chars \in Queries : call.ret = NoMatchText(chars)

\* C10: _run issues the search with k = 10, __call__ with k = 4, and the
\* search never returns more documents than the k of the entry point.
FanOutPerMode ==
    /\ (call.op = "_run" /\ call.k # 0) =>
          call.k = LISTING_K /\ Len(call.semantic.val) <= LISTING_K
    /\ (call.op = "__call__" /\ call.k # 0) =>
          call.k = SEMANTIC_K /\ Len(call.semantic.val) <= SEMANTIC_K

====
